---- MODULE Spec2Model ----
(***************************************************************************)
(* A model of cboe_vx: the trading calendar, the VX expiration-date rule,  *)
(* the assembly of the contract frame and the continuous-series builder    *)
(* of src/cboe.py.                                                         *)
(*                                                                         *)
(* Dates are day numbers (days since 1970-01-01), the value a normalized   *)
(* pandas Timestamp holds.  Prices are integers (thousandths of a point);  *)
(* the float columns of the builder are exact rationals [n, d].            *)
(***************************************************************************)
EXTENDS Integers, Sequences, FiniteSets, TLC

VARIABLES
    monthyear,    \* argument of the last get_vx_expiration_date call (a day number)
    expdate,      \* the date that call returned
    period,       \* fetch_vx_contracts: the target timeframe (ascending dates)
    today,        \* cboe.today
    beforeUpdate, \* cboe.now < cboe_historical_update_datetime (10:00)
    posted,       \* upstream: the historical files hold a row for today
    nullRows,     \* upstream: <<contract month, trade date>> of rows with a null field
    board,        \* upstream: today's settlement board, in its own row order
    frame,        \* the frame fetch_vx_contracts returned
    out,          \* the frame build_continuous_vx_dataframe returned
    pc,           \* "input", "fetched", "built" or "raised"
    startCol,     \* count_business_days: the column of start dates of the last call
    endCol,       \* count_business_days: the column of end dates
    counts,       \* the array that call returned
    date,         \* argument of the last is_business_day call
    isBday,       \* what that call returned
    clock,        \* wall-clock time, in hours since 1970-01-01 00:00 Chicago time
    cacheFile,    \* the cache file of the contract: <<>> (absent) or <<[rows, mtime]>>
    rawRev,       \* upstream: the revision of the contract's CSV now served
    badDates,     \* upstream: the CSV's trade dates are not in the expected format
    cacheArg,     \* fetch_vx_monthly_contract: cache (after the os.mkdir test)
    forceArg,     \* fetch_vx_monthly_contract: force_update
    fpc,          \* "idle", "fetching", "returned" or "raised"
    attempts,     \* workers started by the call
    worker,       \* how the last worker ended: "none", "result", "error" or "hang"
    ret,          \* the contract the call returned
    cacheBefore,  \* the cache file as the call found it
    current,      \* the last is_cboe_cache_current call: <<>> or <<[mtime, now, result]>>
    fn,           \* the function whose download loop runs
    lpc,          \* the loop: "loop", "get", "timedout", "terminated", "gotten", "returned"
    tries,        \* turns of the loop begun
    procs,        \* the worker of each turn: "running", "put", "exited" or "killed"
    queues,       \* the queue of each turn: <<>> or <<the turn whose worker put the result>>
    got,          \* the turn whose worker put the value q.get returned, 0 if none
    pday,         \* post_STCMVF.py: today
    dataP,        \* data.p: <<the pickled tuple>>, <<>> when missing or cut short
    runPc,        \* the last run of today: "none", "completed", "unsaved" or how it failed
    dataPBefore   \* data.p as the run of today found it

varsExp   == <<monthyear, expdate>>
varsBuild == <<period, today, beforeUpdate, posted, nullRows, board, frame, out, pc>>
varsCal   == <<startCol, endCol, counts, date, isBday>>
varsCache == <<clock, cacheFile, rawRev, badDates, cacheArg, forceArg, fpc,
               attempts, worker, ret, cacheBefore, current>>
varsLoop  == <<fn, lpc, tries, procs, queues, got>>
varsPost  == <<pday, dataP, runPc, dataPBefore>>
vars      == <<varsExp, varsBuild, varsCal, varsCache, varsLoop, varsPost>>

\* pandas' NaT, the missing date: a day number that no date of the model has.
NaT == 0 - 1000000

(***************************************************************************)
(* Bounds of the model.                                                    *)
(***************************************************************************)
FirstYear == 2014
NumYears  == 3
Years     == FirstYear .. (FirstYear + NumYears - 1)

(***************************************************************************)
(* Calendar dates: datetime / pd.Timestamp.  An operator hands the values  *)
(* it has computed on to the next one as arguments.                        *)
(***************************************************************************)
DaysOfEra(era, yoe, doy) ==
    era * 146097 + yoe * 365 + yoe \div 4 - yoe \div 100 + doy - 719468

DaysOfShiftedYear(yy, mp, d) ==
    DaysOfEra(yy \div 400, yy % 400, (153 * mp + 2) \div 5 + d - 1)

\* The day number of the date y-m-d.
DaysFromCivil(y, m, d) ==
    DaysOfShiftedYear(IF m <= 2 THEN y - 1 ELSE y, IF m > 2 THEN m - 3 ELSE m + 9, d)

CivilOfMonth(y0, doy, mp) ==
    [year  |-> IF mp < 10 THEN y0 ELSE y0 + 1,
     month |-> IF mp < 10 THEN mp + 3 ELSE mp - 9,
     day   |-> doy - (153 * mp + 2) \div 5 + 1]

CivilOfDayOfYear(y0, doy) == CivilOfMonth(y0, doy, (5 * doy + 2) \div 153)

CivilOfYearOfEra(era, doe, yoe) ==
    CivilOfDayOfYear(yoe + era * 400, doe - (365 * yoe + yoe \div 4 - yoe \div 100))

CivilOfDayOfEra(era, doe) ==
    CivilOfYearOfEra(era, doe,
        (doe - doe \div 1460 + doe \div 36524 - doe \div 146096) \div 365)

\* The date [year, month, day] of day number z.
CivilFromDays(z) ==
    CivilOfDayOfEra((z + 719468) \div 146097, (z + 719468) % 146097)

YearOf(z)  == CivilFromDays(z).year
MonthOf(z) == CivilFromDays(z).month
DayOf(z)   == CivilFromDays(z).day

\* datetime.weekday(): Monday is 0, Sunday is 6 (1970-01-01 was a Thursday).
Weekday(z) == (z + 3) % 7

IsLeap(y) == (y % 4 = 0 /\ y % 100 # 0) \/ y % 400 = 0

DaysInMonth(y, m) ==
    IF m = 2 THEN (IF IsLeap(y) THEN 29 ELSE 28)
    ELSE IF m \in {4, 6, 9, 11} THEN 30 ELSE 31

FirstOfCivil(c) == DaysFromCivil(c.year, c.month, 1)
LastOfCivil(c)  == DaysFromCivil(c.year, c.month, DaysInMonth(c.year, c.month))

FirstOfMonth(z) == FirstOfCivil(CivilFromDays(z))
LastOfMonth(z)  == LastOfCivil(CivilFromDays(z))

(***************************************************************************)
(* pandas.tseries.offsets, as src/cboe.py applies them.                    *)
(***************************************************************************)
RollToMonthEnd(z, last) == IF z = last THEN LastOfMonth(z + 1) ELSE last

\* d + MonthEnd(): the next month end strictly after d.
PlusMonthEnd(z) == RollToMonthEnd(z, LastOfMonth(z))

\* d - MonthEnd(): the last month end strictly before d.
MinusMonthEnd(z) == FirstOfMonth(z) - 1

RollToMonthBegin(z, first) == IF z = first THEN FirstOfMonth(z - 1) ELSE first

\* d - MonthBegin(): the last month begin strictly before d.
MinusMonthBegin(z) == RollToMonthBegin(z, FirstOfMonth(z))

\* A Week offset that rolls forward even from a date already on the weekday.
PlusWeeks_AlwaysRoll(z, n, wd) == z + ((wd - Weekday(z)) % 7) + 7 * (n - 1)

\* d + n*Week(weekday=wd), n > 0: roll forward to the weekday (which uses up
\* one of the n weeks unless d is on it already), then add the weeks left.
PlusWeeks(z, n, wd) ==
    IF Weekday(z) # wd
    THEN z + ((wd - Weekday(z)) % 7) + 7 * (n - 1)
    ELSE z + 7 * n

(***************************************************************************)
(* USMarketHolidayCalendar (src/holiday.py).                               *)
(***************************************************************************)
\* A holiday kept on its own date when it falls on a weekend.
NearestWorkday_Unobserved(z) == z

\* pandas.tseries.holiday.nearest_workday: Saturday -> Friday, Sunday -> Monday.
NearestWorkday(z) ==
    IF Weekday(z) = 5 THEN z - 1
    ELSE IF Weekday(z) = 6 THEN z + 1
    ELSE z

\* The n-th (n > 0) given weekday on or after z: DateOffset(weekday=WD(n)).
NthWeekdayFrom(z, wd, n) == z + ((wd - Weekday(z)) % 7) + 7 * (n - 1)

\* The last given weekday on or before z: DateOffset(weekday=WD(-1)).
LastWeekdayUpTo(z, wd) == z - ((Weekday(z) - wd) % 7)

\* dateutil.easter.easter(y), the western method, which pandas' Easter() uses:
\*   g = y % 19; c = y // 100
\*   h = (c - c//4 - (8*c + 13)//25 + 19*g + 15) % 30
\*   i = h - (h//28)*(1 - (h//28)*(29//(h + 1))*((21 - g)//11))
\*   j = (y + y//4 + i + 2 - c + c//4) % 7
\*   p = i - j; d = 1 + (p + 27 + (p + 6)//40) % 31; m = 3 + (p + 26)//30
EasterP(y, p) ==
    DaysFromCivil(y, 3 + (p + 26) \div 30, 1 + ((p + 27 + (p + 6) \div 40) % 31))

EasterI(y, c, i) == EasterP(y, i - ((y + y \div 4 + i + 2 - c + c \div 4) % 7))

EasterH(y, g, c, h) ==
    EasterI(y, c,
        h - (h \div 28) * (1 - (h \div 28) * (29 \div (h + 1)) * ((21 - g) \div 11)))

EasterG(y, g, c) ==
    EasterH(y, g, c, (c - c \div 4 - (8 * c + 13) \div 25 + 19 * g + 15) % 30)

EasterSunday(y) == EasterG(y, y % 19, y \div 100)

\* The dates the rules of the calendar produce for year y.
HolidaysOfYear(y) ==
    { NearestWorkday(DaysFromCivil(y, 1, 1)),             \* New Years Day
      NthWeekdayFrom(DaysFromCivil(y, 1, 1), 0, 3),       \* USMartinLutherKingJr
      NthWeekdayFrom(DaysFromCivil(y, 2, 1), 0, 3),       \* USPresidentsDay
      EasterSunday(y) - 2,                                \* GoodFriday
      LastWeekdayUpTo(DaysFromCivil(y, 5, 31), 0),        \* USMemorialDay
      NearestWorkday(DaysFromCivil(y, 7, 4)),             \* July 4th
      NthWeekdayFrom(DaysFromCivil(y, 9, 1), 0, 1),       \* USLaborDay
      NthWeekdayFrom(DaysFromCivil(y, 11, 1), 3, 4),      \* USThanksgivingDay
      NearestWorkday(DaysFromCivil(y, 12, 25)) }          \* Christmas

IsHolidayNear(z, y) == \E yy \in (y - 1) .. (y + 1) : z \in HolidaysOfYear(yy)

\* calendar_us.holidays(): an observed date may fall in the year before or
\* after the one of its rule.
IsHoliday(z) == IsHolidayNear(z, YearOf(z))

\* is_business_day(date): the date is in the CDay(calendar=calendar_us) range.
is_business_day(z) == Weekday(z) < 5 /\ ~IsHoliday(z)

\* d - bday_us: np.busday_offset(d, -1, roll='forward'), the last business
\* day strictly before d.
RECURSIVE MinusBday(_)
MinusBday(z) == IF is_business_day(z - 1) THEN z - 1 ELSE MinusBday(z - 1)

\* d + bday_us: the first business day strictly after d.
RECURSIVE PlusBday(_)
PlusBday(z) == IF is_business_day(z + 1) THEN z + 1 ELSE PlusBday(z + 1)

(***************************************************************************)
(* Floats.  A float column holds [n, d]: the rational n/d when d > 0, and  *)
(* with d = 0 the values IEEE arithmetic adds: inf (n = 1), -inf (n = -1)  *)
(* and NaN (n = 0).  Finite values are kept in lowest terms, so that equal *)
(* values are equal records.                                               *)
(***************************************************************************)
Abs(x) == IF x < 0 THEN 0 - x ELSE x
Sign(x) == IF x > 0 THEN 1 ELSE IF x < 0 THEN 0 - 1 ELSE 0

RECURSIVE Gcd(_, _)
Gcd(a, b) == IF b = 0 THEN a ELSE Gcd(b, a % b)

NaN    == [n |-> 0, d |-> 0]
Inf(s) == [n |-> s, d |-> 0]

Reduced(n, d, g) == [n |-> Sign(d) * (n \div g), d |-> Abs(d) \div g]

\* The float n/d, d # 0.
Ratio(n, d) == Reduced(n, d, Gcd(Abs(n), Abs(d)))

Float(i) == [n |-> i, d |-> 1]
IsNaN(x)    == x.d = 0 /\ x.n = 0
IsFinite(x) == x.d > 0

FNeg(x) == [n |-> 0 - x.n, d |-> x.d]

FAdd(x, y) ==
    IF IsNaN(x) \/ IsNaN(y) THEN NaN
    ELSE IF x.d = 0 /\ y.d = 0 THEN (IF x.n = y.n THEN x ELSE NaN)
    ELSE IF x.d = 0 THEN x
    ELSE IF y.d = 0 THEN y
    ELSE Ratio(x.n * y.d + y.n * x.d, x.d * y.d)

FSub(x, y) == FAdd(x, FNeg(y))

FMul(x, y) ==
    IF IsNaN(x) \/ IsNaN(y) THEN NaN
    ELSE IF x.d = 0 \/ y.d = 0
         THEN (IF x.n = 0 \/ y.n = 0 THEN NaN ELSE Inf(Sign(x.n) * Sign(y.n)))
    ELSE Ratio(x.n * y.n, x.d * y.d)

FDiv(x, y) ==
    IF IsNaN(x) \/ IsNaN(y) THEN NaN
    ELSE IF x.d = 0 /\ y.d = 0 THEN NaN
    ELSE IF y.d = 0 THEN Float(0)
    ELSE IF y.n = 0 THEN (IF x.n = 0 THEN NaN ELSE Inf(Sign(x.n)))
    ELSE IF x.d = 0 THEN Inf(Sign(x.n) * Sign(y.n))
    ELSE Ratio(x.n * y.d, x.d * y.n)

(***************************************************************************)
(* count_business_days(start, end), on two columns of dates (NaT: null).   *)
(***************************************************************************)
\* The business days d with a <= d < b, counted day by day.
RECURSIVE BusdaysBetween(_, _)
BusdaysBetween(a, b) ==
    IF a >= b THEN 0
    ELSE (IF is_business_day(a) THEN 1 ELSE 0) + BusdaysBetween(a + 1, b)

\* A count that takes the end date in.
busday_count_Inclusive(begin, end) == BusdaysBetween(begin, end + 1)

\* np.busday_count(begin, end, holidays=...): when end is earlier than begin
\* the count is negative, over the days after end up to and including begin
\* (numpy 1.25 and later; earlier releases count the days from end up to
\* begin, begin excluded).
busday_count(begin, end) ==
    IF begin <= end THEN BusdaysBetween(begin, end)
    ELSE 0 - BusdaysBetween(end + 1, begin + 1)

count_business_days(start, end) ==
    [i \in 1..Len(start) |->
        IF start[i] # NaT /\ end[i] # NaT
        THEN Float(busday_count(start[i], end[i]))
        ELSE NaN]

(***************************************************************************)
(* Sequences.                                                              *)
(***************************************************************************)
\* The elements of s without repetition, in the order of first appearance:
\* Index.unique().
RECURSIVE Unique(_)
Unique(s) ==
    IF s = <<>> THEN <<>>
    ELSE <<Head(s)>> \o Unique(SelectSeq(Tail(s), LAMBDA x : x # Head(s)))

MinOf(S) == CHOOSE x \in S : \A y \in S : x <= y

\* The elements of a set of numbers, ascending: the keys of a groupby.
RECURSIVE Ascending(_)
Ascending(S) ==
    IF S = {} THEN <<>> ELSE <<MinOf(S)>> \o Ascending(S \ {MinOf(S)})

Range(s) == { s[i] : i \in 1..Len(s) }

RECURSIVE Concat(_)
Concat(ss) == IF ss = <<>> THEN <<>> ELSE Head(ss) \o Concat(Tail(ss))

\* The first element taken in the place of the last.
LastOrNaT_First(s) == IF Len(s) > 0 THEN s[1] ELSE NaT

\* s.iloc[-1] when s has an element, else None.
LastOrNaT(s) == IF Len(s) > 0 THEN s[Len(s)] ELSE NaT

(***************************************************************************)
(* get_vx_expiration_date(monthyear)                                       *)
(***************************************************************************)
ThirtyDays == 30

\* The rule with the test of the third Friday left out.
ExpirationOfCandidate_NoFridayTest(third_friday_of_mp1, cand) ==
    IF ~is_business_day(cand) THEN MinusBday(cand) ELSE cand

\* if(not(is_business_day(third_friday_of_mp1) and is_business_day(expdate))):
\*     expdate = expdate - bday_us
ExpirationOfCandidate(third_friday_of_mp1, cand) ==
    IF ~(is_business_day(third_friday_of_mp1) /\ is_business_day(cand))
    THEN MinusBday(cand)
    ELSE cand

\* The candidate taken four weeks before the third Friday.
ExpirationOfFriday_FourWeeks(third_friday_of_mp1) ==
    ExpirationOfCandidate(third_friday_of_mp1, third_friday_of_mp1 - 28)

\* expdate = third_friday_of_mp1 - 30*Day()
ExpirationOfFriday(third_friday_of_mp1) ==
    ExpirationOfCandidate(third_friday_of_mp1, third_friday_of_mp1 - ThirtyDays)

\* mp1 = monthyear + MonthEnd(); third_friday_of_mp1 = mp1 + 3*Week(weekday=4)
get_vx_expiration_date(my) == ExpirationOfFriday(PlusWeeks(PlusMonthEnd(my), 3, 4))

(***************************************************************************)
(* Months.                                                                 *)
(***************************************************************************)
FirstOfMonthCount(t) == DaysFromCivil(t \div 12, (t % 12) + 1, 1)

MonthCount(c) == c.year * 12 + (c.month - 1)

\* The first day of the month k months after the month of z.
AddMonths(z, k) == FirstOfMonthCount(MonthCount(CivilFromDays(z)) + k)

\* d + n*MonthBegin(), n > 0: the n-th month begin strictly after d.
PlusMonthBegins(z, n) == AddMonths(z, n)

RECURSIVE MonthRangeFrom(_, _)
MonthRangeFrom(first, end) ==
    IF first > end THEN <<>>
    ELSE <<first>> \o MonthRangeFrom(AddMonths(first, 1), end)

RollForwardToMonthBegin(z, first) == IF z = first THEN z ELSE AddMonths(z, 1)

\* pd.date_range(start, end, freq='MS'): the month begins in [start, end].
MonthRange(start, end) ==
    MonthRangeFrom(RollForwardToMonthBegin(start, FirstOfMonth(start)), end)

\* pd.date_range(start, freq=bday_us): the first n business days from z on.
RECURSIVE BusinessDaysFrom(_, _)
BusinessDaysFrom(z, n) ==
    IF n = 0 THEN <<>>
    ELSE IF is_business_day(z) THEN <<z>> \o BusinessDaysFrom(z + 1, n - 1)
    ELSE BusinessDaysFrom(z + 1, n)

(***************************************************************************)
(* The inputs of the model: the days of the requests and what the upstream *)
(* source holds.                                                           *)
(***************************************************************************)
NumDays          == 3   \* business days of the longest requested period
MaxNullRows      == 1   \* upstream rows with a null field
MaxBoardMonths   == 8   \* monthly contracts listed on the settlement board

PeriodStart  == DaysFromCivil(2016, 1, 15)
WindowDays   == BusinessDaysFrom(PeriodStart, NumDays)
AfterWindow  == PlusBday(WindowDays[NumDays])
\* The days the historical files may hold a row for.
UpstreamDays == <<MinusBday(PeriodStart)>> \o WindowDays

\* Settle prices in thousandths of a point: on 2016-01-15 those of the
\* fetch_vx_contracts docstring (F to U 2016), else made up.
Docstring0115 == <<26475, 24350, 23650, 23350, 23075, 23025, 23125, 22975, 23200>>

SettleOfCivil(c, td) ==
    IF td = PeriodStart /\ c.year = 2016 /\ c.month <= 9
    THEN Docstring0115[c.month]
    ELSE 20000 + 400 * ((c.year - 2015) * 12 + c.month) + 25 * (td % 11)

RawSettle(ms, td) == SettleOfCivil(CivilFromDays(ms), td)

UpstreamRows(ms, days) ==
    [i \in 1..Len(days) |->
        [td       |-> days[i],
         settle   |-> Float(RawSettle(ms, days[i])),
         complete |-> <<ms, days[i]>> \notin nullRows]]

\* A file holds the days up to the expiration day that have been posted.
UpstreamDaysUpTo(ed) ==
    SelectSeq(UpstreamDays,
        LAMBDA td : td <= ed /\ (td < today \/ (td = today /\ posted)))

\* The historical CSV of the contract of month ms, as read_csv returns it:
\* one row per trading day up to and including the expiration day.
UpstreamContract(ms) ==
    UpstreamRows(ms, UpstreamDaysUpTo(get_vx_expiration_date(ms)))

BoardRow(product, root, ed, price) ==
    [product |-> product, root |-> root, ed |-> ed, price |-> Float(price)]

MonthlyBoardRow(ms, day) ==
    BoardRow("VX", "VX", get_vx_expiration_date(ms), RawSettle(ms, day) + 5)

WeeklyBoardRow(ms, day) ==
    BoardRow("VX", "VX03", get_vx_expiration_date(ms) + 7, RawSettle(ms, day) + 7)

OtherBoardRow(ms, day) ==
    BoardRow("VXM", "VXM", get_vx_expiration_date(ms), RawSettle(ms, day) + 9)

\* The settlement board of a day: the monthly contracts listed, a weekly
\* contract after the front month, and a row of another product.
MakeBoard(listed, day) ==
    <<OtherBoardRow(listed[1], day), MonthlyBoardRow(listed[1], day),
      WeeklyBoardRow(listed[1], day)>>
        \o [i \in 1..(Len(listed) - 1) |-> MonthlyBoardRow(listed[i + 1], day)]

(***************************************************************************)
(* fetch_vx_monthly_contract(monthyear), on the path that reads the        *)
(* upstream CSV (no cache entry, the worker answers in time).  The file's  *)
(* first row is a day before the expiration, so that the read of           *)
(* vx_contract['Trade Date'][0] for the log line finds its label.          *)
(***************************************************************************)
num_active_vx_contracts == 8
cboe_vx_adj_date        == DaysFromCivil(2007, 3, 23)
AdjustDivisor           == 10

\* Adjust prices prior to March 23 2007 (divide by 10), and
\* vx_contract['Expiration Date'] = vx_expdate.
ContractRows(kept, vx_expdate) ==
    [i \in 1..Len(kept) |->
        [td       |-> kept[i].td,
         ed       |-> vx_expdate,
         settle   |-> IF kept[i].td < cboe_vx_adj_date
                      THEN FDiv(kept[i].settle, Float(AdjustDivisor))
                      ELSE kept[i].settle,
         complete |-> kept[i].complete]]

\* Discard entries at expiration and beyond.
ContractOfCsv(raw, vx_expdate) ==
    ContractRows(SelectSeq(raw, LAMBDA r : r.td < vx_expdate), vx_expdate)

fetch_vx_monthly_contract(ms) ==
    ContractOfCsv(UpstreamContract(ms), get_vx_expiration_date(ms))

(***************************************************************************)
(* fetch_vx_daily_settlement()                                             *)
(***************************************************************************)
\* today - bday_us*int(not is_business_day(today) or now < update time)
last_posted_date ==
    IF ~is_business_day(today) \/ beforeUpdate THEN MinusBday(today) ELSE today

\* .iloc[6] raises IndexError on fewer than seven monthly rows; else filter
\* out expired contracts.  [ok, rows]: ok is FALSE when the function raises.
SettlementOfMonthly(monthly_vx_eod_values) ==
    IF Len(monthly_vx_eod_values) < 7
    THEN [ok |-> FALSE, rows |-> <<>>]
    ELSE [ok |-> TRUE,
          rows |-> SelectSeq(monthly_vx_eod_values, LAMBDA r : r.ed > last_posted_date)]

\* The rows of product VX whose symbol p_monthly_expdate matches ("VX/...").
fetch_vx_daily_settlement ==
    SettlementOfMonthly(
        SelectSeq(SelectSeq(board, LAMBDA r : r.product = "VX"), LAMBDA r : r.root = "VX"))

(***************************************************************************)
(* fetch_vx_contracts(period)                                              *)
(***************************************************************************)
ContractMonths(p) ==
    MonthRange(MinusMonthBegin(p[1]),
               PlusMonthBegins(p[Len(p)], num_active_vx_contracts))

\* pd.concat(vx_contracts)
ConcatContracts(months) ==
    Concat([i \in 1..Len(months) |-> fetch_vx_monthly_contract(months[i])])

\* .loc[str(period[0]):str(period[-1])], the rows in the period in place,
\* and dropna().
SliceAndDropNa(vx_contract_df, p) ==
    SelectSeq(SelectSeq(vx_contract_df, LAMBDA r : p[1] <= r.td /\ r.td <= p[Len(p)]),
              LAMBDA r : r.complete)

\* The frame without the rows of the daily settlement.
HistoricalFrame(p) == SliceAndDropNa(ConcatContracts(ContractMonths(p)), p)

\* The rows built from the daily settlement: all columns but Settle null.
CurrentRows(vx_ds_df) ==
    [i \in 1..Len(vx_ds_df) |->
        [td |-> today, ed |-> vx_ds_df[i].ed, settle |-> vx_ds_df[i].price,
         complete |-> FALSE]]

\* vx_contract_df.append(current_df)
AppendCurrent(vx_contract_df, ds) ==
    IF ds.ok
    THEN [ok |-> TRUE, rows |-> vx_contract_df \o CurrentRows(ds.rows)]
    ELSE [ok |-> FALSE, rows |-> <<>>]

\* [ok, rows]: ok is FALSE when the function raises.
FrameOfHistory(vx_contract_df, p) ==
    IF today \in Range(p)
    THEN AppendCurrent(vx_contract_df, fetch_vx_daily_settlement)
    ELSE [ok |-> TRUE, rows |-> vx_contract_df]

fetch_vx_contracts(p) == FrameOfHistory(HistoricalFrame(p), p)

(***************************************************************************)
(* build_continuous_vx_dataframe(vx_contract_df)                           *)
(***************************************************************************)
\* vx_contract_df.index.unique()
Timeframe(df) == Unique([i \in 1..Len(df) |-> df[i].td])

NthOrNull(group, d, k) ==
    IF Len(group) > k THEN group[k + 1] ELSE [td |-> d, ed |-> NaT, settle |-> NaN]

\* The row one position further on, as if the front contract had rolled off.
NthOfDay_Next(df, d, k) == NthOrNull(SelectSeq(df, LAMBDA r : r.td = d), d, k + 1)

\* vx_td_gb.nth(k): for every trade date, the row at position k (from 0) among
\* the rows of that date, in the order of the frame; no entry for a date with
\* fewer rows.  Read at trade date d.
NthOfDay(df, d, k) == NthOrNull(SelectSeq(df, LAMBDA r : r.td = d), d, k)

\* vx_expdate_s[0] - MonthEnd() - MonthBegin()
PriorMonthyear(first_expdate) == MinusMonthBegin(MinusMonthEnd(first_expdate))

\* if(timeframe[0] < vx_expdate_s[0]): prepend the prior expiration date.
PrependPrior(timeframe, vx_expdate_s) ==
    IF timeframe[1] < vx_expdate_s[1]
    THEN <<get_vx_expiration_date(PriorMonthyear(vx_expdate_s[1]))>> \o vx_expdate_s
    ELSE vx_expdate_s

\* The list (series) of expiration dates: the keys of vx_ed_gb, ascending.
ExpdateSeries(df) ==
    PrependPrior(Timeframe(df), Ascending({ df[i].ed : i \in 1..Len(df) }))

\* For every day of the timeframe the last entry of the list that is <= the
\* day, None (NaT) when there is none.
PriorMonthOf(timeframe, vx_expdate_s) ==
    [i \in 1..Len(timeframe) |->
        [td |-> timeframe[i],
         m0 |-> LastOrNaT(SelectSeq(vx_expdate_s, LAMBDA e : e <= timeframe[i]))]]

\* vx_pm_s before dropna().
PriorMonthSeries(df) == PriorMonthOf(Timeframe(df), ExpdateSeries(df))

Third == Ratio(1, 3)

\* The back weight taken from 2 instead of 1.
STMonth2Weight_FromTwo(w1) == FSub(Float(2), w1)

\* 1.0 - vx_continuous_df['ST Month1 Weight']
STMonth2Weight(w1) == FSub(Float(1), w1)

\* Days Till Rollover without the "- 1".
DaysTillRollover_NoMinus(d, m1e) == count_business_days(<<d>>, <<m1e>>)[1]

\* count_business_days(index, Month1 Expiration Date) - 1
DaysTillRollover(d, m1e) == FSub(count_business_days(<<d>>, <<m1e>>)[1], Float(1))

\* vx_td_gb.nth(6)
Month7Position == 6

\* Month0 Expiration Date, Month1 Expiration Date and the Settle columns.
SettleColumns(d, m0, m1, m2, m4, m5, m6, m7) ==
    [td  |-> d,         m0  |-> m0,
     m1e |-> m1.ed,     m1s |-> m1.settle, m2s |-> m2.settle,
     m4s |-> m4.settle, m5s |-> m5.settle,
     m6s |-> m6.settle, m7s |-> m7.settle]

\* Roll Period and Days Till Rollover.
WithDayCounts(r) ==
    r @@ [rp  |-> count_business_days(<<r.m0>>, <<r.m1e>>)[1],
          dtr |-> DaysTillRollover(r.td, r.m1e)]

\* The near weights taken as the part of the roll period already elapsed.
WithNearWeights_Elapsed(r) ==
    r @@ [w1 |-> FSub(Float(1), FDiv(r.dtr, r.rp)),
          w4 |-> FDiv(FSub(Float(1), FDiv(r.dtr, r.rp)), Float(3))]

\* ST Month1 Weight and MT Month4 Weight.
WithNearWeights(r) ==
    r @@ [w1 |-> FDiv(r.dtr, r.rp),
          w4 |-> FDiv(FDiv(r.dtr, r.rp), Float(3))]

\* ST Month2 Weight and MT Month7 Weight.
WithFarWeights(r) ==
    r @@ [w2 |-> STMonth2Weight(r.w1),
          w7 |-> FSub(Third, r.w4)]

\* STCMVF and MTCMVF.
WithValues(r) ==
    r @@ [st |-> FAdd(FMul(r.w1, r.m1s), FMul(r.w2, r.m2s)),
          mt |-> FAdd(FAdd(FAdd(FMul(r.w4, r.m4s), FMul(Third, r.m5s)),
                           FMul(Third, r.m6s)),
                      FMul(r.w7, r.m7s))]

\* The row of the continuous frame for trade date d with prior expiration m0.
ContinuousRow(df, d, m0) ==
    WithValues(WithFarWeights(WithNearWeights(WithDayCounts(
        SettleColumns(d, m0,
            NthOfDay(df, d, 0), NthOfDay(df, d, 1), NthOfDay(df, d, 3),
            NthOfDay(df, d, 4), NthOfDay(df, d, 5),
            NthOfDay(df, d, Month7Position))))))

\* vx_continuous_df = pd.DataFrame(index=vx_pm_s.index) and its columns.
ContinuousRows(df, vx_pm_s) ==
    [i \in 1..Len(vx_pm_s) |-> ContinuousRow(df, vx_pm_s[i].td, vx_pm_s[i].m0)]

\* The rows of the frame, in the order of its index; dropna() excludes the
\* entries without a prior-month contract.
build_continuous_vx_dataframe(df) ==
    ContinuousRows(df, SelectSeq(PriorMonthSeries(df), LAMBDA e : e.m0 # NaT))

(***************************************************************************)
(* The arguments the calls are made with: the first, the 15th and the last *)
(* day of every month of the modelled years.                               *)
(***************************************************************************)
MonthStarts == { DaysFromCivil(y, m, 1) : y \in Years, m \in 1..12 }
CallDates   == MonthStarts
                 \cup { ms + 14 : ms \in MonthStarts }
                 \cup { LastOfMonth(ms) : ms \in MonthStarts }

BuildIdle ==
    /\ period = <<>> /\ today = NaT /\ beforeUpdate = FALSE /\ posted = FALSE
    /\ nullRows = {} /\ board = <<>> /\ frame = <<>> /\ out = <<>> /\ pc = "input"

ExpIdle == monthyear = NaT /\ expdate = NaT

CalIdle ==
    /\ startCol = <<>> /\ endCol = <<>> /\ counts = <<>>
    /\ date = NaT /\ isBday = FALSE

CacheIdle ==
    /\ clock = 0 /\ cacheFile = <<>> /\ rawRev = 0 /\ badDates = FALSE
    /\ cacheArg = FALSE /\ forceArg = FALSE /\ fpc = "idle"
    /\ attempts = 0 /\ worker = "none" /\ ret = <<>> /\ cacheBefore = <<>>
    /\ current = <<>>

LoopIdle ==
    /\ fn = "none" /\ lpc = "loop" /\ tries = 0
    /\ procs = <<>> /\ queues = <<>> /\ got = 0

PostIdle ==
    /\ pday = NaT /\ dataP = <<>> /\ runPc = "none" /\ dataPBefore = <<>>

ExpInit == ExpIdle /\ BuildIdle /\ CalIdle /\ CacheIdle /\ LoopIdle /\ PostIdle

GetVxExpirationDate(my) ==
    /\ monthyear' = my
    /\ expdate'   = get_vx_expiration_date(my)
    /\ UNCHANGED <<varsBuild, varsCal, varsCache,
                 varsLoop, varsPost>>

ExpNext == \E my \in CallDates : GetVxExpirationDate(my)

SpecExp == ExpInit /\ [][ExpNext]_vars

(***************************************************************************)
(* The requests for a frame and its continuous series.                     *)
(***************************************************************************)
\* The contract months from the month of a day on.
MonthsFrom(day, n) == MonthRange(FirstOfMonth(day), AddMonths(day, n))

IsListed(ed, day, withExpiring) == ed > day \/ (withExpiring /\ ed = day)

\* The months listed on the board of a day: n consecutive contract months,
\* from the first one that expires after the day (or on it, withExpiring).
ListedMonths(day, n, withExpiring) ==
    SubSeq(SelectSeq(MonthsFrom(day, n + 1),
               LAMBDA ms : IsListed(get_vx_expiration_date(ms), day, withExpiring)),
           1, n)

\* The front contract of a day.
FrontMonth(day) == ListedMonths(day, 1, FALSE)[1]

\* The upstream rows that may hold a null field: on each day, the row of the
\* front contract.
NullCandidates == { <<FrontMonth(WindowDays[j]), WindowDays[j]>> : j \in 1..NumDays }

BuildInit ==
    /\ ExpIdle /\ CalIdle /\ CacheIdle /\ LoopIdle /\ PostIdle
    /\ \E i \in 1..NumDays : \E j \in i..NumDays : period = SubSeq(WindowDays, i, j)
    /\ nullRows \in { S \in SUBSET NullCandidates : Cardinality(S) <= MaxNullRows }
    /\ \/ \* a request for past days
          /\ today = AfterWindow /\ beforeUpdate = FALSE /\ posted = TRUE
          /\ board = <<>>
       \/ \* a request that ends today
          /\ today = period[Len(period)]
          /\ beforeUpdate \in BOOLEAN
          /\ posted \in BOOLEAN
          /\ \E n \in (MaxBoardMonths - 2)..MaxBoardMonths, withExpiring \in BOOLEAN :
                \E listed \in {ListedMonths(today, n, withExpiring)} :
                    board = MakeBoard(listed, today)
    /\ frame = <<>> /\ out = <<>> /\ pc = "input"

FetchedFrame(r) ==
    /\ frame' = r.rows
    /\ pc' = IF r.ok THEN "fetched" ELSE "raised"

FetchVxContracts ==
    /\ pc = "input"
    /\ FetchedFrame(fetch_vx_contracts(period))
    /\ UNCHANGED <<varsExp, varsCal, varsCache,
                 period, today, beforeUpdate, posted, nullRows, board, out,
                 varsLoop, varsPost>>

\* timeframe[0] raises IndexError on a frame without rows.
BuildContinuousVxDataframe ==
    /\ pc = "fetched"
    /\ IF frame = <<>>
       THEN out' = <<>> /\ pc' = "raised"
       ELSE out' = build_continuous_vx_dataframe(frame) /\ pc' = "built"
    /\ UNCHANGED <<varsExp, varsCal, varsCache,
                 period, today, beforeUpdate, posted, nullRows, board, frame,
                 varsLoop, varsPost>>

BuildNext == FetchVxContracts \/ BuildContinuousVxDataframe

SpecBuild == BuildInit /\ [][BuildNext]_vars

(***************************************************************************)
(* Calls of count_business_days and is_business_day.  The functions keep   *)
(* no state: a behaviour makes one call.                                   *)
(***************************************************************************)
NumCountDays == 6   \* calendar days the dates of the columns are taken from

\* From Friday 2016-01-15 on: a weekend, a holiday and business days.
CountDays  == PeriodStart .. (PeriodStart + NumCountDays - 1)
DateOrNull == CountDays \cup {NaT}

\* Every day of the modelled years.
ProbeDays ==
    DaysFromCivil(FirstYear, 1, 1) .. DaysFromCivil(FirstYear + NumYears - 1, 12, 31)

NoCallYet == startCol = <<>> /\ date = NaT

CountBusinessDays(s, e) ==
    /\ NoCallYet
    /\ startCol' = s
    /\ endCol'   = e
    /\ counts'   = count_business_days(s, e)
    /\ UNCHANGED <<date, isBday, varsExp, varsBuild, varsCache,
                 varsLoop, varsPost>>

IsBusinessDay(z) ==
    /\ NoCallYet
    /\ date'   = z
    /\ isBday' = is_business_day(z)
    /\ UNCHANGED <<startCol, endCol, counts, varsExp, varsBuild, varsCache,
                 varsLoop, varsPost>>

CalInit == ExpIdle /\ BuildIdle /\ CalIdle /\ CacheIdle /\ LoopIdle /\ PostIdle

CalNext ==
    \/ \E a1 \in DateOrNull, b1 \in DateOrNull, a2 \in DateOrNull, b2 \in DateOrNull :
          CountBusinessDays(<<a1, a2>>, <<b1, b2>>)
    \/ \E d1 \in CountDays, d2 \in CountDays, d3 \in CountDays :
          d1 <= d2 /\ d2 <= d3 /\ CountBusinessDays(<<d1, d2, d1>>, <<d2, d3, d3>>)
    \/ \E z \in ProbeDays : IsBusinessDay(z)

SpecCal == CalInit /\ [][CalNext]_vars

(***************************************************************************)
(* fetch_vx_monthly_contract(monthyear, cache, force_update) with its      *)
(* cache file and its download loop, for the contract of April 2007, whose *)
(* bars lie on both sides of cboe_vx_adj_date.                             *)
(***************************************************************************)
NumClockDays == 2   \* days the clock runs over
MaxAttempts  == 3   \* workers a call starts before the model stops counting
MaxRev       == 1   \* revisions of the upstream CSV

\* cboe_historical_update_time = '10:00:00'
UpdateHour == 10

CacheMonth   == DaysFromCivil(2007, 4, 1)
CacheExpdate == get_vx_expiration_date(CacheMonth)

\* The clock is read an hour before and an hour after the update time of
\* the days around the expiration (2007-04-18).
ClockStart == DaysFromCivil(2007, 4, 17)
ClockTimes ==
    { (ClockStart + k) * 24 + h :
        k \in 0..(NumClockDays - 1), h \in {UpdateHour - 1, UpdateHour + 1} }

\* The trade dates of the upstream CSV: two before the adjustment date, the
\* adjustment date, the day before the expiration and the expiration day.
CsvDays ==
    << DaysFromCivil(2007, 3, 21), DaysFromCivil(2007, 3, 22),
       DaysFromCivil(2007, 3, 23), DaysFromCivil(2007, 4, 17),
       DaysFromCivil(2007, 4, 18) >>

\* The raw Settle of a bar, in thousandths of a point.
RawQuote(td, rev) == 100000 + 1000 * (td % 89) + 125 * rev

\* What read_csv returns for the contract at a revision.
CsvOf(rev) ==
    [i \in 1..Len(CsvDays) |->
        [td       |-> CsvDays[i],
         settle   |-> Float(RawQuote(CsvDays[i], rev)),
         complete |-> TRUE]]

\* The cache file after pickle.dump(vx_contract, open(cache_path, 'wb')).
PickledFile(rows, mtime) == <<[rows |-> rows, mtime |-> mtime, loads |-> TRUE]>>

\* The file that open(cache_path, 'wb') truncated and pickle.dump did not
\* fill: it exists and does not load.
TruncatedFile(mtime) == <<[rows |-> <<>>, mtime |-> mtime, loads |-> FALSE]>>

\* The cache directory is absent and os.mkdir(cache_dir) raises an OSError
\* other than FileExistsError: there is no file to read, to stat or to write.
NoDirectory == <<[rows |-> <<>>, mtime |-> NaT, loads |-> FALSE]>>

\* Any file that exists taken as one that loads.
CacheLoads_Exists(file) == file # <<>>

\* pickle.load(open(cache_path, 'rb')) succeeds.
CacheLoads(file) == file # <<>> /\ file[1].loads

\* is_cboe_cache_current(contract, expdate, cache_path): os.stat fails on an
\* absent file; else the cache is stale if last_modified_datetime < expdate.
is_cboe_cache_current(file, vx_expdate) ==
    IF file = <<>> THEN FALSE ELSE ~(file[1].mtime < vx_expdate * 24)

\* The record of an is_cboe_cache_current call.
CurrentCall(file, result) ==
    <<[mtime  |-> IF file = <<>> THEN NaT ELSE file[1].mtime,
       now    |-> clock,
       result |-> result]>>

\* The cache branch without the test of force_update.
CacheHit_IgnoringForce(cache, force) ==
    /\ cache
    /\ CacheLoads(cacheFile)
    /\ is_cboe_cache_current(cacheFile, CacheExpdate)

\* if(not cache): raise; vx_contract = pickle.load(...);
\* if(force_update or not is_cboe_cache_current(...)): raise
CacheHit(cache, force) ==
    /\ cache
    /\ CacheLoads(cacheFile)
    /\ ~force
    /\ is_cboe_cache_current(cacheFile, CacheExpdate)

\* The cached frame taken twice through the price adjustment.
LoadedContract_Readjusted(rows, vx_expdate) == ContractRows(rows, vx_expdate)

\* vx_contract = pickle.load(...); vx_contract['Expiration Date'] = vx_expdate
LoadedContract(rows, vx_expdate) ==
    [i \in 1..Len(rows) |-> [rows[i] EXCEPT !.ed = vx_expdate]]

\* Dates taken as parsed whatever their format.
DatesParse_Always(bad) == TRUE

\* pd.to_datetime(vx_contract['Trade Date'], format=...) does not raise.
DatesParse(bad) == ~bad

CacheInit ==
    /\ ExpIdle /\ BuildIdle /\ CalIdle /\ LoopIdle /\ PostIdle
    /\ clock = (ClockStart * 24) + (UpdateHour - 1)
    /\ cacheFile \in {<<>>, NoDirectory} /\ rawRev = 0 /\ badDates = FALSE
    /\ cacheArg = FALSE /\ forceArg = FALSE /\ fpc = "idle"
    /\ attempts = 0 /\ worker = "none" /\ ret = <<>> /\ cacheBefore = <<>>
    /\ current = <<>>

\* Time passes, between calls.
Tick ==
    /\ fpc # "fetching"
    /\ \E t \in ClockTimes :
          /\ t > clock
          /\ \A u \in ClockTimes : u > clock => t <= u
          /\ clock' = t
    /\ UNCHANGED <<cacheFile, rawRev, badDates, cacheArg, forceArg, fpc, attempts,
                   worker, ret, cacheBefore, current, varsExp, varsBuild, varsCal,
                 varsLoop, varsPost>>

\* The upstream source changes the contract's CSV, between calls: it revises
\* the prices, or it changes the format of the dates, or both.
Revise ==
    /\ fpc # "fetching"
    /\ \E rev \in rawRev..MaxRev, bad \in BOOLEAN :
          /\ <<rev, bad>> # <<rawRev, badDates>>
          /\ rawRev' = rev
          /\ badDates' = bad
    /\ UNCHANGED <<clock, cacheFile, cacheArg, forceArg, fpc, attempts,
                   worker, ret, cacheBefore, current, varsExp, varsBuild, varsCal,
                 varsLoop, varsPost>>

\* A direct call of is_cboe_cache_current on the cache file.
IsCboeCacheCurrent ==
    /\ fpc # "fetching"
    /\ current' = CurrentCall(cacheFile, is_cboe_cache_current(cacheFile, CacheExpdate))
    /\ UNCHANGED <<clock, cacheFile, rawRev, badDates, cacheArg, forceArg, fpc,
                   attempts, worker, ret, cacheBefore, varsExp, varsBuild, varsCal,
                 varsLoop, varsPost>>

\* fetch_vx_monthly_contract up to the download loop: the cache is disabled
\* if the cache directory is inaccessible; the contract comes from the
\* cache, or the call falls back to fetching from CBOE.
FetchVxMonthlyContract(cache, force) ==
    /\ fpc # "fetching"
    /\ cacheArg' = (cache /\ cacheFile # NoDirectory) /\ forceArg' = force
    /\ cacheBefore' = cacheFile
    /\ attempts' = 0 /\ worker' = "none"
    /\ current' = IF cache /\ CacheLoads(cacheFile) /\ ~force
                  THEN CurrentCall(cacheFile, is_cboe_cache_current(cacheFile, CacheExpdate))
                  ELSE current
    /\ IF CacheHit(cache, force)
       THEN fpc' = "returned" /\ ret' = LoadedContract(cacheFile[1].rows, CacheExpdate)
       ELSE fpc' = "fetching" /\ ret' = <<>>
    /\ UNCHANGED <<clock, cacheFile, rawRev, badDates, varsExp, varsBuild, varsCal,
                 varsLoop, varsPost>>

\* One turn of the loop in which q.get(True, timeout_sec + delay_sec) raises
\* queue.Empty: the worker hangs, or its read raised and it ended without
\* putting a result.  The worker is terminated and the loop goes on.
Timeout(how) ==
    /\ fpc = "fetching"
    /\ attempts < MaxAttempts
    /\ attempts' = attempts + 1
    /\ worker' = how
    /\ UNCHANGED <<clock, cacheFile, rawRev, badDates, cacheArg, forceArg, fpc,
                   ret, cacheBefore, current, varsExp, varsBuild, varsCal,
                 varsLoop, varsPost>>

\* if(cache): pickle.dump(...), a failure of which is logged and nothing
\* more: the file is written, left as it was (open fails) or truncated.
CacheWritten(rows) ==
    IF cacheArg
    THEN \/ cacheFile' = PickledFile(rows, clock)
         \/ cacheFile' = cacheFile
         \/ cacheFile' = TruncatedFile(clock)
    ELSE cacheFile' = cacheFile

\* The rest of the call once a worker has put the CSV in the queue: parse
\* the dates, discard, adjust, cache, stamp the expiration date, return.
Downloaded(rows) ==
    IF DatesParse(badDates)
    THEN /\ CacheWritten(rows)
         /\ ret' = LoadedContract(rows, CacheExpdate)
         /\ fpc' = "returned"
    ELSE /\ cacheFile' = cacheFile
         /\ ret' = <<>>
         /\ fpc' = "raised"

\* The turn of the loop in which the worker's result arrives in time.
Download ==
    /\ fpc = "fetching"
    /\ attempts < MaxAttempts
    /\ attempts' = attempts + 1
    /\ worker' = "result"
    /\ Downloaded(ContractOfCsv(CsvOf(rawRev), CacheExpdate))
    /\ UNCHANGED <<clock, rawRev, badDates, cacheArg, forceArg, cacheBefore,
                   current, varsExp, varsBuild, varsCal,
                 varsLoop, varsPost>>

CacheNext ==
    \/ Tick
    \/ Revise
    \/ IsCboeCacheCurrent
    \/ \E cache \in BOOLEAN, force \in BOOLEAN : FetchVxMonthlyContract(cache, force)
    \/ \E how \in {"hang", "error"} : Timeout(how)
    \/ Download

SpecCache == CacheInit /\ [][CacheNext]_vars

(***************************************************************************)
(* The download loop of fetch_vx_monthly_contract, fetch_vx_daily_settle-  *)
(* ment and fetch_index, the parent and its read_csv workers step by step. *)
(***************************************************************************)
MaxTurns == 3   \* turns of the loop the model follows

\* The three functions hold the same loop.
LoopFunctions == {"fetch_vx_monthly_contract", "fetch_vx_daily_settlement", "fetch_index"}

\* The process is alive: started, and neither ended nor terminated.
IsAlive(status) == status \in {"running", "put"}

\* One queue shared by the turns: what any worker has put so far.
QueueOfTurn_Shared(qs, turn) ==
    SelectSeq([i \in 1..Len(qs) |-> IF qs[i] = <<>> THEN 0 ELSE qs[i][1]],
              LAMBDA v : v # 0)

\* q = multiprocessing.Queue(): the queue the turn made, read by its q.get.
QueueOfTurn(qs, turn) == qs[turn]

LoopInit ==
    /\ ExpIdle /\ BuildIdle /\ CalIdle /\ CacheIdle /\ PostIdle
    /\ fn \in LoopFunctions
    /\ lpc = "loop" /\ tries = 0 /\ procs = <<>> /\ queues = <<>> /\ got = 0

\* while try_again: q = multiprocessing.Queue(); p = multiprocessing.Process(
\* target=read_csv, ...); p.start()
StartWorker ==
    /\ lpc = "loop"
    /\ tries < MaxTurns
    /\ tries' = tries + 1
    /\ queues' = Append(queues, <<>>)
    /\ procs' = Append(procs, "running")
    /\ lpc' = "get"
    /\ UNCHANGED <<fn, got, varsExp, varsBuild, varsCal, varsCache, varsPost>>

\* read_csv: q.put(results), the result tagged with the worker's turn.
WorkerPuts(i) ==
    /\ procs[i] = "running"
    /\ queues' = [queues EXCEPT ![i] = <<i>>]
    /\ procs' = [procs EXCEPT ![i] = "put"]
    /\ UNCHANGED <<fn, lpc, tries, got, varsExp, varsBuild, varsCal, varsCache, varsPost>>

\* read_csv returns after q.put, or raises out of pd.read_csv: the process
\* ends.
WorkerEnds(i) ==
    /\ IsAlive(procs[i])
    /\ procs' = [procs EXCEPT ![i] = "exited"]
    /\ UNCHANGED <<fn, lpc, tries, queues, got, varsExp, varsBuild, varsCal, varsCache,
                   varsPost>>

\* vx_contract = q.get(True, timeout_sec + delay_sec); try_again = False
GetReturns(q) ==
    /\ lpc = "get"
    /\ q # <<>>
    /\ got' = q[1]
    /\ lpc' = "gotten"
    /\ UNCHANGED <<fn, tries, procs, queues, varsExp, varsBuild, varsCal, varsCache,
                   varsPost>>

\* except queue.Empty: the deadline passes with nothing in the queue.
GetTimesOut(q) ==
    /\ lpc = "get"
    /\ q = <<>>
    /\ lpc' = "timedout"
    /\ UNCHANGED <<fn, tries, procs, queues, got, varsExp, varsBuild, varsCal, varsCache,
                   varsPost>>

\* p.terminate()
Terminate ==
    /\ lpc = "timedout"
    /\ procs' = [procs EXCEPT ![tries] = IF IsAlive(@) THEN "killed" ELSE @]
    /\ lpc' = "terminated"
    /\ UNCHANGED <<fn, tries, queues, got, varsExp, varsBuild, varsCal, varsCache,
                   varsPost>>

\* p.join() of the except branch and the p.join() that ends the turn: the
\* worker is gone, the loop goes round.
JoinTerminated ==
    /\ lpc = "terminated"
    /\ ~IsAlive(procs[tries])
    /\ lpc' = "loop"
    /\ UNCHANGED <<fn, tries, procs, queues, got, varsExp, varsBuild, varsCal, varsCache,
                   varsPost>>

\* p.join() after a result: blocks until the worker has ended; the loop is
\* left and the function goes on to return.
JoinFinished ==
    /\ lpc = "gotten"
    /\ ~IsAlive(procs[tries])
    /\ lpc' = "returned"
    /\ UNCHANGED <<fn, tries, procs, queues, got, varsExp, varsBuild, varsCal, varsCache,
                   varsPost>>

LoopNext ==
    \/ StartWorker
    \/ \E i \in 1..Len(procs) : WorkerPuts(i)
    \/ \E i \in 1..Len(procs) : WorkerEnds(i)
    \/ (tries > 0 /\ GetReturns(QueueOfTurn(queues, tries)))
    \/ (tries > 0 /\ GetTimesOut(QueueOfTurn(queues, tries)))
    \/ Terminate
    \/ JoinTerminated
    \/ JoinFinished

SpecLoop == LoopInit /\ [][LoopNext]_vars

(***************************************************************************)
(* The expiration-date rule as the contract specification words it, for    *)
(* the claims to compare the code's result with.                           *)
(***************************************************************************)
\* The Fridays of the calendar month that follows the month of ms.
FridaysOfNextMonth(ms) ==
    LET nm == LastOfMonth(ms) + 1
    IN  { z \in nm .. LastOfMonth(nm) : Weekday(z) = 4 }

\* The third of them.
ThirdFridayOfNextMonth(ms) ==
    CHOOSE z \in FridaysOfNextMonth(ms) :
        Cardinality({ w \in FridaysOfNextMonth(ms) : w <= z }) = 3

CandidateWednesday(ms) == ThirdFridayOfNextMonth(ms) - 30

\* The business day immediately preceding z.
PrecedingBusinessDay(z) ==
    CHOOSE b \in (z - 10) .. (z - 1) :
        is_business_day(b) /\ \A x \in (b + 1) .. (z - 1) : ~is_business_day(x)

\* C8: for a contract month given as its first day, the result is the
\* candidate (third Friday of the following month minus 30 days) when the
\* candidate and that Friday are business days, and otherwise the business
\* day immediately preceding the candidate.
C8_ExpirationRule ==
    monthyear \in MonthStarts =>
        expdate = IF is_business_day(CandidateWednesday(monthyear))
                     /\ is_business_day(ThirdFridayOfNextMonth(monthyear))
                  THEN CandidateWednesday(monthyear)
                  ELSE PrecedingBusinessDay(CandidateWednesday(monthyear))

\* A call for a month whose third Friday is Good Friday: the date is shifted.
C8_Witness ==
    /\ monthyear \in MonthStarts
    /\ ~is_business_day(ThirdFridayOfNextMonth(monthyear))
    /\ expdate = PrecedingBusinessDay(CandidateWednesday(monthyear))
    /\ expdate < CandidateWednesday(monthyear)

\* The expiration days of 2016 in the fetch_vx_contracts docstring.
Docstring2016 == <<20, 17, 16, 20, 18, 15, 20, 17, 21>>

\* C9: get_vx_expiration_date for January 2016 returns 2016-01-20 and for
\* February to September 2016 the dates of the fetch_vx_contracts docstring.
C9_Published2016 ==
    \A m \in 1..9 :
        monthyear = DaysFromCivil(2016, m, 1)
            => expdate = DaysFromCivil(2016, m, Docstring2016[m])

\* The call for September 2016, whose month ends on a Friday.
C9_Witness ==
    /\ monthyear = DaysFromCivil(2016, 9, 1)
    /\ expdate = DaysFromCivil(2016, 9, 21)
    /\ Weekday(LastOfMonth(monthyear)) = 4

\* C10: any two calls whose arguments lie in the same calendar month of the
\* same year return the same date, whatever the day of the month.
C10_SameMonthSameDate ==
    [][ ( /\ monthyear # NaT
          /\ monthyear' # NaT
          /\ YearOf(monthyear') = YearOf(monthyear)
          /\ MonthOf(monthyear') = MonthOf(monthyear) )
        => expdate' = expdate ]_vars

(***************************************************************************)
(* The continuous series as the contract specification words it, read off  *)
(* the input frame.                                                        *)
(***************************************************************************)
\* The contracts of the input chain, each known by its expiration date.
Chain == { frame[i].ed : i \in 1..Len(frame) }

TradeDates == { frame[i].td : i \in 1..Len(frame) }

MaxOf(S) == CHOOSE x \in S : \A y \in S : y <= x

\* The expiration dates strictly greater than d, ascending.
ForwardExpirations(d) == Ascending({ e \in Chain : e > d })

\* The settle values the frame holds for the contract expiring on e, on day d.
SettlesOn(e, d) ==
    { frame[i].settle : i \in { j \in 1..Len(frame) : frame[j].ed = e /\ frame[j].td = d } }

SettleOfMonth(r, N) ==
    CASE N = 1 -> r.m1s [] N = 2 -> r.m2s [] N = 4 -> r.m4s
      [] N = 5 -> r.m5s [] N = 6 -> r.m6s [] N = 7 -> r.m7s

\* C1: for every row d of the output and every N in {1,2,4,5,6,7}, MonthN
\* Settle is the settle on d of the contract with the N-th smallest
\* expiration date strictly greater than d in the input chain (null when
\* there is none), and Month1 Expiration Date is the smallest expiration
\* date strictly greater than d, whether or not some contracts have no row
\* on d.
C1_NthForwardContract ==
    pc = "built" =>
        \A i \in 1..Len(out) : \E fwd \in {ForwardExpirations(out[i].td)} :
            /\ out[i].m1e = IF Len(fwd) >= 1 THEN fwd[1] ELSE NaT
            /\ \A N \in {1, 2, 4, 5, 6, 7} :
                  IF Len(fwd) >= N /\ SettlesOn(fwd[N], out[i].td) # {}
                  THEN SettleOfMonth(out[i], N) \in SettlesOn(fwd[N], out[i].td)
                  ELSE IsNaN(SettleOfMonth(out[i], N))

\* The Expiration-Date Rule for the contract month that begins on ms.
ExpirationDateRule(ms) ==
    IF is_business_day(CandidateWednesday(ms))
          /\ is_business_day(ThirdFridayOfNextMonth(ms))
    THEN CandidateWednesday(ms)
    ELSE PrecedingBusinessDay(CandidateWednesday(ms))

\* The first day of the calendar month immediately preceding the month of z.
PrecedingMonth(z) ==
    IF MonthOf(z) = 1
    THEN DaysFromCivil(YearOf(z) - 1, 12, 1)
    ELSE DaysFromCivil(YearOf(z), MonthOf(z) - 1, 1)

\* The expiration dates of the input contracts plus, when the earliest
\* trade date precedes the first known expiration, the synthesized one.
Anchors ==
    Chain \cup (IF MinOf(TradeDates) < MinOf(Chain)
                THEN {ExpirationDateRule(PrecedingMonth(MinOf(Chain)))}
                ELSE {})

\* C2: for every row d of the output, Month0 Expiration Date is the largest
\* date <= d among the expiration dates of the input contracts plus, when
\* the earliest trade date precedes the first known expiration, the
\* Expiration-Date Rule applied to the month preceding that expiration's.
C2_Month0IsLatestAnchor ==
    pc = "built" =>
        \E anchors \in {Anchors} : \A i \in 1..Len(out) :
            \E upto \in {{ e \in anchors : e <= out[i].td }} :
                upto # {} /\ out[i].m0 = MaxOf(upto)

\* A frame whose first days take the synthesized date of December 2015 and
\* whose last day takes the expiration of a contract of the chain.
C2_Witness ==
    /\ pc = "built"
    /\ \E i \in 1..Len(out) :
          out[i].m0 = DaysFromCivil(2015, 12, 16) /\ out[i].m0 \notin Chain
    /\ \E i \in 1..Len(out) : out[i].m0 \in Chain

\* C3: for every output row, w1 = Days Till Rollover / Roll Period,
\* w2 = 1 - w1 so that w1 + w2 = 1, STCMVF = w1 * Month1 Settle + w2 * Month2
\* Settle, and Roll Period * STCMVF = Days Till Rollover * Month1 Settle +
\* (Roll Period - Days Till Rollover) * Month2 Settle.
C3_ShortTermValue ==
    pc = "built" =>
        \A i \in 1..Len(out) : \E r \in {out[i]} :
            /\ r.w1 = FDiv(r.dtr, r.rp)
            /\ r.w2 = FSub(Float(1), r.w1)
            /\ FAdd(r.w1, r.w2) = Float(1)
            /\ r.st = FAdd(FMul(r.w1, r.m1s), FMul(r.w2, r.m2s))
            /\ FMul(r.rp, r.st)
                 = FAdd(FMul(r.dtr, r.m1s), FMul(FSub(r.rp, r.dtr), r.m2s))

\* The number of rows the frame holds for day d.
RowsOn(d) == Cardinality({ j \in 1..Len(frame) : frame[j].td = d })

\* C4: for every output row, w4 = (Days Till Rollover / Roll Period) / 3,
\* w7 = 1/3 - w4 so that w4 + 1/3 + 1/3 + w7 = 1, and MTCMVF = w4 * Month4
\* Settle + (1/3) * Month5 Settle + (1/3) * Month6 Settle + w7 * Month7
\* Settle; on a trade date with fewer than 7 rows MTCMVF is null and STCMVF
\* is still computed from Month1 and Month2.
C4_MidTermValue ==
    pc = "built" =>
        \A i \in 1..Len(out) : \E r \in {out[i]} :
            /\ r.w4 = FDiv(FDiv(r.dtr, r.rp), Float(3))
            /\ r.w7 = FSub(Ratio(1, 3), r.w4)
            /\ FAdd(FAdd(FAdd(r.w4, Ratio(1, 3)), Ratio(1, 3)), r.w7) = Float(1)
            /\ r.mt = FAdd(FAdd(FAdd(FMul(r.w4, r.m4s), FMul(Ratio(1, 3), r.m5s)),
                                FMul(Ratio(1, 3), r.m6s)),
                           FMul(r.w7, r.m7s))
            /\ RowsOn(r.td) < 7 =>
                  /\ IsNaN(r.mt)
                  /\ IsFinite(r.st)
                  /\ r.st = FAdd(FMul(r.w1, r.m1s), FMul(r.w2, r.m2s))

\* The number of business days in [a, b): the days that are neither a
\* Saturday, a Sunday nor a holiday of the calendar.
BusinessDaysIn(a, b) ==
    Cardinality({ z \in a..(b - 1) : Weekday(z) \notin {5, 6} /\ ~IsHoliday(z) })

\* C5: for every output row d, Roll Period is the number of business days
\* in [Month0 Expiration Date, Month1 Expiration Date) and Days Till
\* Rollover is the number of business days in [d, Month1 Expiration Date)
\* minus 1.
C5_DayCounts ==
    pc = "built" =>
        \A i \in 1..Len(out) : \E r \in {out[i]} :
            /\ r.m1e # NaT
            /\ r.rp  = Float(BusinessDaysIn(r.m0, r.m1e))
            /\ r.dtr = Float(BusinessDaysIn(r.td, r.m1e) - 1)

\* The row of 2016-01-15: 22 business days from 2015-12-16 to 2016-01-20,
\* with Christmas, New Year and Martin Luther King day between them, and 2
\* from 2016-01-15 to 2016-01-20.
C5_Witness ==
    /\ pc = "built"
    /\ \E i \in 1..Len(out) :
          /\ out[i].td  = DaysFromCivil(2016, 1, 15)
          /\ out[i].m0  = DaysFromCivil(2015, 12, 16)
          /\ out[i].m1e = DaysFromCivil(2016, 1, 20)
          /\ out[i].rp  = Float(22)
          /\ out[i].dtr = Float(1)
          /\ IsHoliday(DaysFromCivil(2016, 1, 18))

IsInfinite(x) == x.d = 0 /\ x.n # 0

\* C6: every row of the output has a defined Roll Period strictly greater
\* than 0, and no weight, STCMVF or MTCMVF value of the output is infinite.
C6_PositiveRollPeriod ==
    pc = "built" =>
        \A i \in 1..Len(out) :
            /\ IsFinite(out[i].rp)
            /\ out[i].rp.n > 0
            /\ \A x \in {out[i].w1, out[i].w2, out[i].w4, out[i].w7,
                         out[i].st, out[i].mt} : ~IsInfinite(x)

\* C7: the output has exactly one row for each distinct trade date of the
\* input for which a Month0 expiration can be resolved, no other row, and
\* its trade-date index is strictly ascending.
C7_OneRowPerDateAscending ==
    pc = "built" =>
        /\ { out[i].td : i \in 1..Len(out) }
             = { d \in TradeDates : \E e \in Anchors : e <= d }
        /\ \A i \in 1..(Len(out) - 1) : out[i].td < out[i + 1].td

(***************************************************************************)
(* The business-day functions as the contract specification words them.    *)
(***************************************************************************)
\* C11: count_business_days returns, at the position of every pair, the
\* number of business days d with start <= d < end, and NaN for a pair in
\* which start or end is null.
C11_CountPerPair ==
    /\ Len(counts) = Len(startCol)
    /\ \A i \in 1..Len(counts) :
          IF startCol[i] = NaT \/ endCol[i] = NaT
          THEN IsNaN(counts[i])
          ELSE counts[i] = Float(BusinessDaysIn(startCol[i], endCol[i]))

\* The column of a call whose dates rise from d1 to d2 to d3.
IsTriple ==
    /\ Len(startCol) = 3
    /\ startCol[1] = startCol[3] /\ endCol[1] = startCol[2] /\ endCol[2] = endCol[3]
    /\ startCol[1] <= startCol[2] /\ startCol[2] <= endCol[3]

\* C12: count_business_days(d, d) = 0, and for d1 <= d2 <= d3 the count from
\* d1 to d3 is the sum of the counts from d1 to d2 and from d2 to d3.
C12_ZeroAndAdditive ==
    /\ \A i \in 1..Len(counts) :
          (startCol[i] # NaT /\ startCol[i] = endCol[i]) => counts[i] = Float(0)
    /\ IsTriple => counts[3] = FAdd(counts[1], counts[2])

\* From Friday 2016-01-15 over the weekend and Martin Luther King day to
\* Tuesday, and on to Wednesday: 1 + 1 = 2.
C12_Witness ==
    /\ IsTriple
    /\ startCol = <<DaysFromCivil(2016, 1, 15), DaysFromCivil(2016, 1, 19),
                    DaysFromCivil(2016, 1, 15)>>
    /\ endCol[3] = DaysFromCivil(2016, 1, 20)
    /\ counts = <<Float(1), Float(1), Float(2)>>

\* The n-th day of the given weekday in month m of year y.
NthWeekdayOfMonth(y, m, wd, n) ==
    CHOOSE z \in DaysFromCivil(y, m, 1) .. DaysFromCivil(y, m, DaysInMonth(y, m)) :
        /\ Weekday(z) = wd
        /\ Cardinality({ w \in DaysFromCivil(y, m, 1) .. z : Weekday(w) = wd }) = n

\* The last day of the given weekday in month m of year y.
LastWeekdayOfMonth(y, m, wd) ==
    CHOOSE z \in DaysFromCivil(y, m, 1) .. DaysFromCivil(y, m, DaysInMonth(y, m)) :
        /\ Weekday(z) = wd
        /\ z + 7 > DaysFromCivil(y, m, DaysInMonth(y, m))

\* A fixed-date holiday as observed: on Friday when it falls on a Saturday, on
\* Monday when it falls on a Sunday.
Observed(z) ==
    CASE Weekday(z) = 5 -> z - 1
      [] Weekday(z) = 6 -> z + 1
      [] OTHER          -> z

\* Easter Sunday, from the published dates.
EasterTable(y) ==
    CASE y = 2012 -> DaysFromCivil(2012, 4, 8)  [] y = 2013 -> DaysFromCivil(2013, 3, 31)
      [] y = 2014 -> DaysFromCivil(2014, 4, 20) [] y = 2015 -> DaysFromCivil(2015, 4, 5)
      [] y = 2016 -> DaysFromCivil(2016, 3, 27) [] y = 2017 -> DaysFromCivil(2017, 4, 16)
      [] y = 2018 -> DaysFromCivil(2018, 4, 1)  [] y = 2019 -> DaysFromCivil(2019, 4, 21)
      [] y = 2020 -> DaysFromCivil(2020, 4, 12)

\* The nine holidays of year y, by name.
NamedHolidays(y) ==
    { Observed(DaysFromCivil(y, 1, 1)),         \* New Year's Day observed
      NthWeekdayOfMonth(y, 1, 0, 3),            \* MLK Day: third Monday of January
      NthWeekdayOfMonth(y, 2, 0, 3),            \* Presidents Day: third Monday of February
      EasterTable(y) - 2,                       \* Good Friday
      LastWeekdayOfMonth(y, 5, 0),              \* Memorial Day: last Monday of May
      Observed(DaysFromCivil(y, 7, 4)),         \* Independence Day observed
      NthWeekdayOfMonth(y, 9, 0, 1),            \* Labor Day: first Monday of September
      NthWeekdayOfMonth(y, 11, 3, 4),           \* Thanksgiving: fourth Thursday of November
      Observed(DaysFromCivil(y, 12, 25)) }      \* Christmas observed

\* C13: is_business_day(d) is false for every Saturday, every Sunday and
\* every date the calendar produces, true for every other date, and the
\* calendar produces exactly the nine named holidays of each year.
C13_BusinessDays ==
    date # NaT =>
        \E y \in {YearOf(date)} :
            /\ isBday = ~( \/ Weekday(date) \in {5, 6}
                           \/ \E yy \in (y - 1)..(y + 1) : date \in NamedHolidays(yy) )
            /\ HolidaysOfYear(y) = NamedHolidays(y)
            /\ Cardinality(HolidaysOfYear(y)) = 9

\* Friday 2015-07-03, on which Independence Day (a Saturday) is observed.
C13_Witness ==
    /\ date = DaysFromCivil(2015, 7, 3)
    /\ Weekday(date) = 4
    /\ isBday = FALSE

\* C14: every row of the frame returned by fetch_vx_contracts, the same-day
\* rows of the daily settlement included, has a Trade Date strictly before
\* its Expiration Date.
C14_TradeBeforeExpiration ==
    \A i \in 1..Len(frame) : frame[i].td < frame[i].ed


(***************************************************************************)
(* Claims on the cache and the download loop (SpecCache).                  *)
(***************************************************************************)
\* The raw source values a bar of the trade date can have.
RawValues(td) == { RawQuote(td, rev) : rev \in 0..MaxRev }

\* C15: after any sequence of calls (cache miss, cache hit, forced refresh),
\* every returned bar dated before 2007-03-23 has a Settle of exactly one
\* tenth of a raw source value, and every bar dated on or after 2007-03-23
\* has a raw source value unchanged.  Settle stands for Open, High, Low and
\* Close, which the code adjusts by the same statement.
C15_AdjustedOnce ==
    fpc = "returned" =>
        \A i \in 1..Len(ret) :
            \E raw \in RawValues(ret[i].td) :
                ret[i].settle = IF ret[i].td < DaysFromCivil(2007, 3, 23)
                                THEN Ratio(raw, 10)
                                ELSE Ratio(raw, 1)

\* A call answered from the cache with bars on both sides of the date.
C15_Witness ==
    /\ fpc = "returned" /\ attempts = 0
    /\ \E i \in 1..Len(ret) : ret[i].td < DaysFromCivil(2007, 3, 23)
    /\ \E i \in 1..Len(ret) : ret[i].td >= DaysFromCivil(2007, 3, 23)


\* The scheduled daily updates up to an instant: 10:00 of each business day.
ScheduledUpdates(now) ==
    { d * 24 + 10 : d \in { e \in (ClockStart - 7)..(now \div 24) : is_business_day(e) } }
        \cap (0..now)

LatestOf(instants) == CHOOSE t \in instants : \A u \in instants : u <= t

\* C16: is_cboe_cache_current returns true exactly when the cache file's
\* last-modification time is at or after the later of the contract's last
\* trading day (taken, as the code takes it, as the expiration date) and the
\* scheduled update time of the most recent business day.
C16_CurrentAfterLatestUpdate ==
    current # <<>> =>
        (current[1].result <=>
            /\ current[1].mtime # NaT
            /\ current[1].mtime >= CacheExpdate * 24
            /\ current[1].mtime >= LatestOf(ScheduledUpdates(current[1].now)))


\* The last call was answered from the cache, without a download.
AnsweredFromCache == fpc = "returned" /\ attempts = 0

\* Caching was enabled, the file loaded, force_update was false and
\* is_cboe_cache_current reported the cache current, when the call began.
CacheUsable ==
    /\ cacheArg
    /\ cacheBefore # <<>> /\ cacheBefore[1].loads
    /\ ~forceArg
    /\ cacheBefore[1].mtime >= CacheExpdate * 24

\* A call is answered from the cache exactly when the cache was usable, and
\* then with the cached contract, the cache left as it was.
CachedExactlyWhenUsable ==
    fpc # "idle" =>
        /\ AnsweredFromCache <=> CacheUsable
        /\ AnsweredFromCache => ret = cacheBefore[1].rows /\ cacheFile = cacheBefore

\* The step in which a call with force_update = True returns its download.
ForcedRefresh == fpc = "fetching" /\ fpc' = "returned" /\ forceArg

\* The contract of the upstream CSV as it is now, without the bars at
\* expiration and beyond, back-adjusted.
FreshContract == ContractOfCsv(CsvOf(rawRev), CacheExpdate)

C18_BoundedAttempts ==
    fpc = "fetching" => attempts <= 2

\* C19: a failure raised inside the read_csv worker is propagated to the
\* caller: when the read fails again on the retry, the call ends with an
\* error instead of going on with timeouts and retries.
C19_WorkerErrorPropagated ==
    [][ (fpc = "fetching" /\ worker = "error" /\ worker' = "error"
            /\ attempts' = attempts + 1)
        => fpc' = "raised" ]_vars

\* The call has ended with an error, without a contract, the cache entry
\* being as it was before the call.
RaisedLeavesCache ==
    fpc = "raised" => ret = <<>> /\ cacheFile = cacheBefore

\* C20: when the trade dates of the downloaded contract do not parse, the
\* call propagates the error, returns no contract and leaves the cache
\* entry exactly as it was before the call.
C20_FormatErrorLeavesCache ==
    [][ /\ RaisedLeavesCache'
        /\ (fpc = "fetching" /\ worker' = "result" /\ attempts' = attempts + 1
               /\ badDates)
           => (fpc' = "raised" /\ ret' = <<>> /\ cacheFile' = cacheFile)
      ]_vars

\* A forced refresh of a cached contract has failed on the dates, and the
\* cache entry is the one of before.
C20_Witness ==
    /\ fpc = "raised" /\ worker = "result" /\ badDates
    /\ cacheArg /\ forceArg
    /\ cacheBefore # <<>> /\ cacheBefore[1].loads
    /\ cacheFile = cacheBefore


(***************************************************************************)
(* Claims on the expiration dates of the contract months (SpecExp).        *)
(***************************************************************************)
\* A date that is no Saturday, no Sunday and none of the named holidays.
IsNamedBusinessDay(z, y) ==
    /\ Weekday(z) \notin {5, 6}
    /\ \A yy \in (y - 1)..(y + 1) : z \notin NamedHolidays(yy)

\* The expiration date e of the contract month beginning on ms is a business
\* day of that month: the candidate Wednesday, or the business day before.
InMonthNearCandidate(ms, e, cand) ==
    /\ IsNamedBusinessDay(e, YearOf(e))
    /\ ms <= e /\ e <= LastOfMonth(ms)
    /\ \/ e = cand /\ Weekday(e) = 2
       \/ /\ e < cand
          /\ \A x \in (e + 1)..(cand - 1) : ~IsNamedBusinessDay(x, YearOf(x))

\* C29: for every contract month, the date get_vx_expiration_date returns is
\* a business day (no Saturday, Sunday or holiday), lies inside the
\* contract's calendar month and is the candidate Wednesday or the business
\* day immediately before it; and the date of the month that follows a
\* contract month is strictly later.
C29_BusinessDayInMonthIncreasing ==
    [][ /\ monthyear' \in MonthStarts
           => InMonthNearCandidate(monthyear', expdate', CandidateWednesday(monthyear'))
        /\ (monthyear \in MonthStarts /\ monthyear' = LastOfMonth(monthyear) + 1)
           => expdate < expdate'
      ]_vars

\* The call for the month after a shifted one: the earlier date is a
\* Tuesday, the later one a Wednesday.
C29_Witness ==
    /\ monthyear \in MonthStarts
    /\ Weekday(expdate) = 2
    /\ Weekday(get_vx_expiration_date(FirstOfMonth(monthyear - 1))) = 1


(***************************************************************************)
(* Claims on the daily settlement and on the same-day rows (SpecBuild).    *)
(***************************************************************************)
\* fetch_vx_daily_settlement has been called: the request includes today.
SettlementRead == pc # "input" /\ period # <<>> /\ today \in Range(period)

\* The rows of the board for monthly VX contracts.
MonthlyVxRows == SelectSeq(board, LAMBDA r : r.product = "VX" /\ r.root = "VX")

\* C22: fetch_vx_daily_settlement returns exactly the monthly VX rows of the
\* board whose expiration date is strictly after today, by ascending
\* expiration date, whatever the time of day.
C22_UnexpiredMonthlyRows ==
    SettlementRead =>
        \E ds \in {fetch_vx_daily_settlement} :
            ds.ok =>
                /\ Range(ds.rows) = { r \in Range(MonthlyVxRows) : r.ed > today }
                /\ \A i \in 1..(Len(ds.rows) - 1) : ds.rows[i].ed < ds.rows[i + 1].ed

\* C23: fetch_vx_daily_settlement fails on a board with fewer than 2 monthly
\* VX rows, succeeds on a board with at least 6, and whenever it returns the
\* result holds at least the front-month and the back-month row.
C23_SixMonthlyRowsSuffice ==
    SettlementRead =>
        \E ds \in {fetch_vx_daily_settlement} :
            /\ Len(MonthlyVxRows) < 2 => ~ds.ok
            /\ Len(MonthlyVxRows) >= 6 => ds.ok
            /\ ds.ok => Len(ds.rows) >= 2

\* The rows of the frame that come from the daily settlement: Settle and
\* Expiration Date set, the other columns null.
SameDayRows == SelectSeq(frame, LAMBDA r : ~r.complete)

\* C24: fetch_vx_contracts appends same-day rows only when today is in the
\* period and the historical files hold no row for today; the frame never
\* holds two rows with the same Trade Date and Expiration Date, and every
\* Trade Date lies within the period.
C24_SameDayRowsOnlyWhenMissing ==
    pc = "fetched" =>
        /\ SameDayRows # <<>> =>
              /\ today \in Range(period)
              /\ \A i \in 1..Len(frame) : frame[i].complete => frame[i].td # today
        /\ \A i, j \in 1..Len(frame) :
              (frame[i].td = frame[j].td /\ frame[i].ed = frame[j].ed) => i = j
        /\ \A i \in 1..Len(frame) :
              period[1] <= frame[i].td /\ frame[i].td <= period[Len(period)]


(***************************************************************************)
(* Claims on the docstring example and on the weights (SpecBuild).         *)
(***************************************************************************)
\* The rows of the input frame on 2016-01-15.
RowsOf0115 == SelectSeq(frame, LAMBDA r : r.td = DaysFromCivil(2016, 1, 15))

\* The input holds, on 2016-01-15, the nine contracts January to September
\* 2016 with the settle prices of the docstring (F = 26.475, G = 24.350,
\* H = 23.650, ...), and the continuous frame has been built from it.
NineContractsGiven ==
    /\ pc = "built"
    /\ \E rows \in {RowsOf0115} :
          /\ Len(rows) = 9
          /\ \A k \in 1..9 :
                /\ rows[k].settle = Ratio(Docstring0115[k], 1)
                /\ rows[k].ed = get_vx_expiration_date(DaysFromCivil(2016, k, 1))

\* The output rows for 2016-01-15.
OutOf0115 == { out[i] : i \in { j \in 1..Len(out) : out[j].td = DaysFromCivil(2016, 1, 15) } }

\* C25 as stated: the row for 2016-01-15 uses G (February 2016) as Month1
\* and H (March 2016) as Month2, and its STCMVF is w1 * 24.350 + (1 - w1) *
\* 23.650 with w1 = Days Till Rollover / Roll Period.
C25_FebruaryIsMonth1 ==
    NineContractsGiven =>
        \E r \in OutOf0115 :
            /\ r.m1e = DaysFromCivil(2016, 2, 17)
            /\ r.m1s = Ratio(24350, 1)
            /\ r.m2s = Ratio(23650, 1)
            /\ r.w1 = FDiv(r.dtr, r.rp)
            /\ r.st = FAdd(FMul(r.w1, Ratio(24350, 1)),
                           FMul(FSub(Ratio(1, 1), r.w1), Ratio(23650, 1)))

\* C25 (amended): on 2016-01-15 the January contract F has not expired (it
\* expires on 2016-01-20), so the row uses F as Month1 and G as Month2:
\* Roll Period is 22 (2015-12-16 to 2016-01-20), Days Till Rollover is 1,
\* w1 = 1/22 and STCMVF = (1 * 26.475 + 21 * 24.350) / 22.
C25_JanuaryIsMonth1 ==
    NineContractsGiven =>
        /\ OutOf0115 # {}
        /\ \A r \in OutOf0115 :
              /\ r.m0  = DaysFromCivil(2015, 12, 16)
              /\ r.m1e = DaysFromCivil(2016, 1, 20)
              /\ r.m1s = Ratio(26475, 1)
              /\ r.m2s = Ratio(24350, 1)
              /\ r.rp  = Ratio(22, 1)
              /\ r.dtr = Ratio(1, 1)
              /\ r.w1  = Ratio(1, 22)
              /\ r.st  = Ratio(1 * 26475 + 21 * 24350, 22)

\* The frame built from the nine contracts holds a row for 2016-01-15 whose
\* Month1 Settle is the one of F.
C25_Witness ==
    /\ NineContractsGiven
    /\ \E r \in OutOf0115 : r.m1s = Ratio(26475, 1) /\ r.m1e = DaysFromCivil(2016, 1, 20)


\* The output rows with a positive, finite Roll Period.
RolledRows == { out[i] : i \in { j \in 1..Len(out) : out[j].rp.d = 1 /\ out[j].rp.n > 0 } }

\* C26 as stated: a row whose Days Till Rollover equals Roll Period - 1 has
\* w1 = 0 and w2 = 1, and its STCMVF equals Month2 Settle.
C26_FullWeightAtRollPeriodLessOne ==
    pc = "built" =>
        \A r \in RolledRows :
            r.dtr = Ratio(r.rp.n - 1, 1) =>
                r.w1 = Ratio(0, 1) /\ r.w2 = Ratio(1, 1) /\ r.st = r.m2s

\* C26 (amended): the row of the last trading day before the front-month
\* expiration is the row whose Days Till Rollover equals 0; there w1 = 0
\* and w2 = 1, and STCMVF equals Month2 Settle.  A row whose Days Till
\* Rollover equals Roll Period - 1 has w1 = (Roll Period - 1) / Roll Period.
C26_FullWeightAtZeroDays ==
    pc = "built" =>
        \A r \in RolledRows :
            /\ r.dtr = Ratio(0, 1) <=>
                  (r.td < r.m1e /\ \A x \in (r.td + 1)..(r.m1e - 1) :
                                       Weekday(x) \in {5, 6} \/ IsHoliday(x))
            /\ r.dtr = Ratio(0, 1) =>
                  r.w1 = Ratio(0, 1) /\ r.w2 = Ratio(1, 1) /\ r.st = r.m2s
            /\ r.dtr = Ratio(r.rp.n - 1, 1) => r.w1 = Ratio(r.rp.n - 1, r.rp.n)

\* The row of 2016-01-19, the last trading day before the expiration of
\* 2016-01-20: Days Till Rollover 0, the full weight on the back month.
C26_Witness ==
    /\ pc = "built"
    /\ \E r \in RolledRows :
          /\ r.td = DaysFromCivil(2016, 1, 19) /\ r.m1e = DaysFromCivil(2016, 1, 20)
          /\ r.dtr = Ratio(0, 1) /\ r.w2 = Ratio(1, 1)
          /\ r.st = r.m2s /\ r.m2s.d = 1


\* Every trade date of the input frame is a business day and precedes its
\* expiration date, and the continuous frame has been built from it.
BuiltFromTradingDays ==
    /\ pc = "built"
    /\ \A i \in 1..Len(frame) :
          /\ frame[i].td < frame[i].ed
          /\ Weekday(frame[i].td) \notin {5, 6} /\ ~IsHoliday(frame[i].td)

\* x is a number of [0, 1/k].
InUnitOver(x, k) == x.d > 0 /\ 0 <= x.n /\ k * x.n <= x.d

\* There is no business day strictly between d and e.
NoBusinessDayBetween(d, e) ==
    \A x \in (d + 1)..(e - 1) : Weekday(x) \in {5, 6} \/ IsHoliday(x)

\* Days Till Rollover of a docstring date of 2017 against the expiration of
\* the contract month m of 2017, as the code counts it.
DocstringDaysTillRollover(m, day) ==
    DaysTillRollover(DaysFromCivil(2017, m, day),
                     get_vx_expiration_date(DaysFromCivil(2017, m, 1)))

\* C28: for every output row built from a frame whose trade dates are
\* business days before their expiration, 0 <= Days Till Rollover <= Roll
\* Period - 1, the short-term weights lie in [0, 1] and the mid-term
\* variable weights in [0, 1/3]; Days Till Rollover is 0 exactly on the last
\* business day before the Month1 expiration, where STCMVF equals Month2
\* Settle (as on 2017-01-17, 2017-02-14 and 2017-03-21), and it is Roll
\* Period - 1 exactly when the trade date is the Month0 expiration date.
C28_DaysTillRolloverInRollPeriod ==
    BuiltFromTradingDays =>
        /\ \A i \in 1..Len(out) : \E r \in {out[i]} :
              /\ r.rp.d = 1 /\ r.dtr.d = 1
              /\ 0 <= r.dtr.n /\ r.dtr.n <= r.rp.n - 1
              /\ InUnitOver(r.w1, 1) /\ InUnitOver(r.w2, 1)
              /\ InUnitOver(r.w4, 3) /\ InUnitOver(r.w7, 3)
              /\ r.dtr.n = 0 <=> NoBusinessDayBetween(r.td, r.m1e)
              /\ r.dtr.n = 0 => r.st = r.m2s
              /\ r.dtr.n = r.rp.n - 1 <=> r.td = r.m0
        /\ DocstringDaysTillRollover(1, 17) = Ratio(0, 1)
        /\ DocstringDaysTillRollover(2, 14) = Ratio(0, 1)
        /\ DocstringDaysTillRollover(3, 21) = Ratio(0, 1)

\* The row of 2016-01-20, the expiration day of the January contract and
\* the first day of the next roll period: Days Till Rollover is Roll
\* Period - 1.
C28_Witness ==
    /\ BuiltFromTradingDays
    /\ \E i \in 1..Len(out) :
          /\ out[i].td = DaysFromCivil(2016, 1, 20)
          /\ out[i].m0 = out[i].td
          /\ out[i].rp.n > 1
          /\ out[i].dtr.n = out[i].rp.n - 1


(***************************************************************************)
(* The cache failures (SpecCache).                                         *)
(***************************************************************************)
\* The cache the call finds cannot be used: the directory cannot be
\* created, or the file cannot be read or unpickled.
CacheBroken(file) == file # <<>> /\ ~file[1].loads

\* A call that found the cache broken was not answered without a download,
\* and a call has raised only after a download arrived (on its dates).
BrokenCacheFetched ==
    /\ (fpc = "returned" /\ attempts = 0) => ~CacheBroken(cacheBefore)
    /\ fpc = "raised" => (worker = "result" /\ attempts >= 1)

\* The step in which a download with well-formed dates arrives.
GoodDownload ==
    /\ fpc = "fetching" /\ attempts' = attempts + 1 /\ worker' = "result"
    /\ ~badDates

\* C21: a cache failure is never fatal.  A call that finds the cache
\* directory missing and not creatable, or the cache file unreadable, goes
\* on to fetch from upstream; and a download that arrives is returned as
\* the contract a call without caching returns, whether the cache file can
\* be written or not, with no error raised.
C21_CacheFailureNotFatal ==
    [][ /\ BrokenCacheFetched'
        /\ GoodDownload =>
              /\ fpc' = "returned"
              /\ ret' = ContractOfCsv(CsvOf(rawRev), CacheExpdate)
              /\ (cacheFile = NoDirectory => cacheFile' = NoDirectory)
      ]_vars

\* A call with caching enabled has found an unreadable cache file, has
\* fetched, has failed to write the file, and has returned the contract.
C21_Witness ==
    /\ fpc = "returned" /\ cacheArg /\ attempts >= 1
    /\ CacheBroken(cacheBefore) /\ cacheBefore # NoDirectory
    /\ CacheBroken(cacheFile)
    /\ ret = ContractOfCsv(CsvOf(rawRev), CacheExpdate)


(***************************************************************************)
(* The workers of the download loop (SpecLoop).                            *)
(***************************************************************************)
\* The turns whose worker is alive.
AliveWorkers == { i \in 1..Len(procs) : procs[i] \in {"running", "put"} }

\* C27: in the download loop at most one worker is alive at any time; the
\* worker of a timed-out turn is terminated and joined before the next turn
\* starts; every turn has its own queue, which holds nothing but its own
\* worker's result; the value returned was put by the worker of the last
\* turn; and no worker is alive when the call returns.
C27_OneWorkerAtATime ==
    /\ Cardinality(AliveWorkers) <= 1
    /\ AliveWorkers \subseteq {tries}
    /\ lpc = "loop" => AliveWorkers = {}
    /\ Len(queues) = tries /\ Len(procs) = tries
    /\ \A i \in 1..Len(queues) : queues[i] \in {<<>>, <<i>>}
    /\ lpc \in {"gotten", "returned"} => got = tries
    /\ lpc = "returned" => AliveWorkers = {}

\* The call has returned the result of its second or third worker, while
\* the queue of an earlier, timed-out turn holds the result its worker put
\* between the deadline and its termination.
C27_Witness ==
    /\ lpc = "returned" /\ tries >= 2 /\ got = tries
    /\ \E i \in 1..(tries - 1) : queues[i] = <<i>> /\ procs[i] = "killed"


(***************************************************************************)
(* post_STCMVF.py: the script of the daily post, and the state it keeps    *)
(* in data.p from one run to the next: (prior_expdate,                     *)
(* prior_front_month_price, prior_back_month_price).  A run happens on a   *)
(* business day, any number of times, or not at all.                       *)
(***************************************************************************)
NumPostDays == 5
PostDays    == BusinessDaysFrom(PeriodStart, NumPostDays)

\* The most recent of the monthly VX expiration dates at or before a day.
PriorExpiration(day) ==
    MaxOf({ e \in { get_vx_expiration_date(ms) : ms \in Range(MonthsFrom(day - 62, 3)) } :
              e <= day })

\* setup_data.py: the user types the prior expiration date and the two
\* settlement prices of the session before, and the script pickles them.
SetupData(day) ==
    \E listed \in {ListedMonths(MinusBday(day), 2, FALSE)} :
        dataP = <<[prior_expdate           |-> PriorExpiration(MinusBday(day)),
                   prior_front_month_price |-> MonthlyBoardRow(listed[1], MinusBday(day)).price,
                   prior_back_month_price  |-> MonthlyBoardRow(listed[2], MinusBday(day)).price]>>

\* The settlement board the script reads on a day: the contract that
\* expires on the day is still its first monthly row.
EodValues(day) == MakeBoard(ListedMonths(day, 3, TRUE), day)

\* The rows whose symbol matches 'VX \s*(.*)'.
MonthlyEodValues(eod) == SelectSeq(eod, LAMBDA r : r.root = "VX" /\ r.product = "VX")

\* len(pd.DatetimeIndex(start=a, end=b - bday_us, freq=bday_us))
SessionsUntil(a, b) == BusdaysBetween(a, MinusBday(b) + 1)

\* The front and back month of the run and the prior expiration it goes on
\* with: on the expiration day of the front month the back month becomes
\* the front month and the third monthly row the back month.
RolledOver(day, monthly, prior_expdate) ==
    IF day = monthly[1].ed
    THEN [prior_expdate |-> monthly[1].ed, front |-> monthly[2], back |-> monthly[3]]
    ELSE [prior_expdate |-> prior_expdate, front |-> monthly[1], back |-> monthly[2]]

\* The two divisions by a number of sessions; either raises
\* ZeroDivisionError when no session lies between the prior expiration and
\* the front month's.
PriorPeriod(monthly, prior_expdate) == SessionsUntil(prior_expdate, monthly[1].ed)

Period(day, monthly, prior_expdate) ==
    SessionsUntil(RolledOver(day, monthly, prior_expdate).prior_expdate,
                  RolledOver(day, monthly, prior_expdate).front.ed)

DivisionRaises(day, monthly, prior_expdate) ==
    \/ PriorPeriod(monthly, prior_expdate) = 0
    \/ Period(day, monthly, prior_expdate) = 0

\* What a run that gets to its end pickles.
SavedState(day, monthly, prior_expdate) ==
    \E r \in {RolledOver(day, monthly, prior_expdate)} :
        dataP' = <<[prior_expdate           |-> r.prior_expdate,
                    prior_front_month_price |-> r.front.price,
                    prior_back_month_price  |-> r.back.price]>>

PostInit ==
    /\ ExpIdle /\ BuildIdle /\ CalIdle /\ CacheIdle /\ LoopIdle
    /\ pday = PostDays[1]
    /\ SetupData(PostDays[1])
    /\ runPc = "none"
    /\ dataPBefore = dataP

\* A run begins: what data.p held is remembered, to compare.
RunEnds(how) ==
    /\ runPc'       = how
    /\ dataPBefore' = dataP
    /\ pday'        = pday
    /\ UNCHANGED <<varsExp, varsBuild, varsCal, varsCache, varsLoop>>

\* pickle.load raises: data.p is missing or cut short.
LoadFails ==
    /\ dataP = <<>>
    /\ dataP' = dataP
    /\ RunEnds("load failed")

\* Both the CSV and the HTML table of the board fail to download.
DownloadFails ==
    /\ dataP # <<>>
    /\ dataP' = dataP
    /\ RunEnds("download failed")

DivisionFails(monthly) ==
    /\ dataP # <<>>
    /\ DivisionRaises(pday, monthly, dataP[1].prior_expdate)
    /\ dataP' = dataP
    /\ RunEnds("division failed")

\* StockTwits is unreachable or answers with a status other than 200.
PostFails(monthly) ==
    /\ dataP # <<>>
    /\ ~DivisionRaises(pday, monthly, dataP[1].prior_expdate)
    /\ dataP' = dataP
    /\ RunEnds("post failed")

\* The message is posted and pickle.dump raises: data.p is as it was when
\* open() raised, and empty when the write did.
SaveFails(monthly, truncated) ==
    /\ dataP # <<>>
    /\ ~DivisionRaises(pday, monthly, dataP[1].prior_expdate)
    /\ dataP' = IF truncated THEN <<>> ELSE dataP
    /\ RunEnds("unsaved")

Completes(monthly) ==
    /\ dataP # <<>>
    /\ ~DivisionRaises(pday, monthly, dataP[1].prior_expdate)
    /\ SavedState(pday, monthly, dataP[1].prior_expdate)
    /\ RunEnds("completed")

\* The next business day comes, whether a run happened or not.
NextDay ==
    /\ \E j \in 1..(NumPostDays - 1) : pday = PostDays[j] /\ pday' = PostDays[j + 1]
    /\ runPc' = "none"
    /\ dataPBefore' = dataP
    /\ dataP' = dataP
    /\ UNCHANGED <<varsExp, varsBuild, varsCal, varsCache, varsLoop>>

PostNext ==
    \/ LoadFails
    \/ DownloadFails
    \/ \E monthly \in {MonthlyEodValues(EodValues(pday))} : DivisionFails(monthly)
    \/ \E monthly \in {MonthlyEodValues(EodValues(pday))} : PostFails(monthly)
    \/ \E monthly \in {MonthlyEodValues(EodValues(pday))}, truncated \in BOOLEAN :
           SaveFails(monthly, truncated)
    \/ \E monthly \in {MonthlyEodValues(EodValues(pday))} : Completes(monthly)
    \/ NextDay

SpecPost == PostInit /\ [][PostNext]_vars

\* The ways a run ends before its message is posted.
FailedBeforePost ==
    {"load failed", "download failed", "division failed", "post failed"}

\* C30: after every run that completes on day t the prior_expdate kept in
\* data.p is the most recent monthly VX expiration date at or before t, and
\* a run that fails before the post succeeds leaves data.p as it was.
C30_PriorExpdateIsMostRecent ==
    /\ runPc = "completed"     => dataP[1].prior_expdate = PriorExpiration(pday)
    /\ runPc \in FailedBeforePost => dataP = dataPBefore

\* The second half of C30 alone.
FailedRunLeavesData == runPc \in FailedBeforePost => dataP = dataPBefore

\* The first half of C30 on the days up to the first expiration day.
FreshUntilExpiration ==
    (runPc = "completed" /\ pday < PriorExpiration(PostDays[NumPostDays]))
        => dataP[1].prior_expdate = PriorExpiration(pday)

====
